---- MODULE Spec2Model ----
(***************************************************************************)
(* Model of the two Modal scraper functions scrape_instagram_profile       *)
(* (src/modal_scrapers/instagram.py) and scrape_tiktok_profile             *)
(* (src/modal_scrapers/tiktok.py): the try/except/finally control flow of  *)
(* one job, the in-page extraction script and its parseCount helper.       *)
(*                                                                         *)
(* Strings are sequences of one-character strings.  A JavaScript number    *)
(* that is an integer is represented by its decimal numeral (a sequence of *)
(* digit characters without leading zeros), NaN by the numeral NaN.  The   *)
(* product num * 10^k of parseCount is computed by shifting the decimal    *)
(* point; this equals Math.floor of the IEEE-754 double product for every  *)
(* input the specifications below enumerate (digits 1 and 5, at most five  *)
(* characters, and the listed sample texts).                               *)
(***************************************************************************)
EXTENDS Integers, Sequences, FiniteSets, TLC

(***************************************************************************)
(* Bounds                                                                  *)
(***************************************************************************)
\* the longest enumerated argument of parseCount
MaxLen == 4

\* the largest number of content items on the TikTok pages of SpecGaps
MaxGapItems == 4

\* the largest number of content items on the TikTok pages of SpecItems
MaxItems == 13

(***************************************************************************)
(* Characters and strings                                                  *)
(***************************************************************************)
Digit == {"0", "1", "2", "3", "4", "5", "6", "7", "8", "9"}

SuffixLetter == {"K", "M", "B"}

NaN == <<"N", "a", "N">>

Zero == <<"0">>

\* the characters the bounded inputs are built from
Alphabet == {"1", "5", ".", ",", "K", "M", "B", " ", "g"}

RECURSIVE StringsOfLen(_)
StringsOfLen(n) ==
    IF n = 0 THEN {<<>>}
    ELSE {Append(s, c) : s \in StringsOfLen(n - 1), c \in Alphabet}

RECURSIVE StringsUpTo(_)
StringsUpTo(n) ==
    IF n = 0 THEN StringsOfLen(0)
    ELSE StringsOfLen(n) \cup StringsUpTo(n - 1)

\* s[i..] without its first n characters
Drop(s, n) == SubSeq(s, n + 1, Len(s))

\* the longest prefix of s made of characters of class C
RECURSIVE Run(_, _)
Run(s, C) ==
    IF s = <<>> \/ Head(s) \notin C THEN <<>>
    ELSE <<Head(s)>> \o Run(Tail(s), C)

\* s.replace(/[^C]/g, '') : keep the characters of class C
Keep(s, C) == SelectSeq(s, LAMBDA c : c \in C)

\* s.replace(/,/g, '')
RemoveCommas(s) == SelectSeq(s, LAMBDA c : c # ",")

\* String.prototype.trim (the only whitespace of the model is the space)
RECURSIVE TrimLeft(_)
TrimLeft(s) == IF s # <<>> /\ Head(s) = " " THEN TrimLeft(Tail(s)) ELSE s

RECURSIVE TrimRight(_)
TrimRight(s) ==
    IF s # <<>> /\ s[Len(s)] = " " THEN TrimRight(SubSeq(s, 1, Len(s) - 1)) ELSE s

Trim(s) == TrimRight(TrimLeft(s))

\* String.prototype.match with the non-global pattern /([C]+)([KMB]?)/ :
\* the leftmost non-empty greedy run of class C and the one suffix letter
\* that immediately follows it, or no match.
RECURSIVE RegexMatch(_, _)
RegexMatch(s, C) ==
    IF s = <<>> THEN [matched |-> FALSE, num |-> <<>>, suffix |-> ""]
    ELSE IF Head(s) \in C
         THEN LET run  == Run(s, C)
                  rest == Drop(s, Len(run))
              IN  [matched |-> TRUE,
                   num     |-> run,
                   suffix  |-> IF rest # <<>> /\ Head(rest) \in SuffixLetter
                               THEN Head(rest) ELSE ""]
         ELSE RegexMatch(Tail(s), C)

\* parseFloat on a string of digits and dots: the longest prefix of the form
\* digits [. digits] holding at least one digit; NaN when there is none.
parseFloat(s) ==
    LET ip   == Run(s, Digit)
        rest == Drop(s, Len(ip))
        fp   == IF rest # <<>> /\ Head(rest) = "." THEN Run(Tail(rest), Digit)
                ELSE <<>>
    IN  IF ip = <<>> /\ fp = <<>> THEN [nan |-> TRUE, int |-> <<>>, frac |-> <<>>]
        ELSE [nan |-> FALSE, int |-> ip, frac |-> fp]

RECURSIVE StripZeros(_)
StripZeros(d) ==
    IF Len(d) > 1 /\ Head(d) = "0" THEN StripZeros(Tail(d)) ELSE d

RECURSIVE Zeros(_)
Zeros(n) == IF n = 0 THEN <<>> ELSE <<"0">> \o Zeros(n - 1)

\* Math.floor(num * 10^k)
FloorTimes(num, k) ==
    IF num.nan THEN NaN
    ELSE LET padded == num.frac \o Zeros(k)
             d      == num.int \o SubSeq(padded, 1, k)
         IN  IF d = <<>> THEN Zero ELSE StripZeros(d)

\* the multiplier chosen by the three suffix tests, as a power of ten
Exponent(suffix) ==
    CASE suffix = "K" -> 3
      [] suffix = "M" -> 6
      [] suffix = "B" -> 9
      [] OTHER        -> 0

\* parseCount of the Instagram page script
parseCountInstagram(text) ==
    IF text = <<>> THEN Zero
    ELSE LET match == RegexMatch(text, Digit \cup {",", "."})
         IN  IF ~match.matched THEN Zero
             ELSE LET num == parseFloat(RemoveCommas(match.num))
                  IN  FloorTimes(num, Exponent(match.suffix))

\* parseCount of the TikTok page script
parseCountTikTok(text) ==
    IF text = <<>> THEN Zero
    ELSE LET cleaned == Keep(text, Digit \cup {"."} \cup SuffixLetter)
             match   == RegexMatch(cleaned, Digit \cup {"."})
         IN  IF ~match.matched THEN Zero
             ELSE FloorTimes(parseFloat(match.num), Exponent(match.suffix))

(***************************************************************************)
(* The loaded page: what the selectors of the extraction scripts find.     *)
(* An optional node is a sequence of length 0 (querySelector gives null)   *)
(* or 1.                                                                   *)
(***************************************************************************)
Platforms == {"Instagram", "TikTok"}

Jobs == {1, 2}

\* the number of recent items the TikTok script keeps: .slice(0, 12)
SliceEnd == 12

\* x?.textContent?.trim() without the `|| ''` default: undefined on a
\* missing node
TextOrUndefined(node) == IF node = <<>> THEN <<"u", "n", "d", "e", "f", "i", "n", "e", "d">> ELSE Trim(node[1])

\* x?.textContent?.trim() || ''
TextOrEmpty(node) == IF node = <<>> THEN <<>> ELSE Trim(node[1])

\* x?.src || '' and x?.href || ''
AttrOrEmpty(node) == IF node = <<>> THEN <<>> ELSE node[1]

\* stats[i] || '0' over the trimmed texts of the list entries
StatOrZero(stats, i) ==
    IF i <= Len(stats) /\ Trim(stats[i]) # <<>> THEN Trim(stats[i]) ELSE Zero

\* !!document.querySelector('h2')?.textContent?.includes('Private')
RECURSIVE Includes(_, _)
Includes(s, w) ==
    IF Len(s) < Len(w) THEN FALSE
    ELSE SubSeq(s, 1, Len(w)) = w \/ Includes(Tail(s), w)

\* the function passed to page.evaluate by scrape_instagram_profile
extractInstagram(d, stamp) ==
    [username      |-> TextOrEmpty(d.headerH2),
     fullName      |-> TextOrEmpty(d.fullNameSpan),
     bio           |-> TextOrEmpty(d.bioSpan),
     followers     |-> parseCountInstagram(StatOrZero(d.stats, 2)),
     following     |-> parseCountInstagram(StatOrZero(d.stats, 3)),
     posts         |-> parseCountInstagram(StatOrZero(d.stats, 1)),
     profilePicUrl |-> AttrOrEmpty(d.headerImg),
     isVerified    |-> d.verifiedSvg,
     isPrivate     |-> d.h2 # <<>> /\ Includes(d.h2[1], <<"P", "r", "i", "v", "a", "t", "e">>),
     scrapedAt     |-> stamp]

\* el?.getAttribute('title') || el?.textContent || '0'
TitleOrText(el) ==
    IF el = <<>> THEN Zero
    ELSE IF el[1].title # <<>> /\ el[1].title[1] # <<>> THEN el[1].title[1]
    ELSE IF el[1].textContent # <<>> THEN el[1].textContent
    ELSE Zero

\* viewsElement?.textContent || '0'
ViewsOrZero(node) == IF node = <<>> \/ node[1] = <<>> THEN Zero ELSE node[1]

\* the list taken whole, without .slice(0, n)
SliceNone(s, n) == s

\* Array.prototype.slice(0, n)
Slice(s, n) == SubSeq(s, 1, IF Len(s) < n THEN Len(s) ELSE n)

\* the callback mapped over the first items of the TikTok page
VideoOf(item) ==
    [link  |-> AttrOrEmpty(item.a),
     views |-> parseCountTikTok(ViewsOrZero(item.views))]

\* the function passed to page.evaluate by scrape_tiktok_profile
extractTikTok(d, stamp) ==
    [username     |-> TextOrEmpty(d.userTitle),
     bio          |-> TextOrEmpty(d.userBio),
     avatar       |-> AttrOrEmpty(d.avatarImg),
     followers    |-> parseCountTikTok(TitleOrText(d.followersEl)),
     following    |-> parseCountTikTok(TitleOrText(d.followingEl)),
     likes        |-> parseCountTikTok(TitleOrText(d.likesEl)),
     videos       |-> Len(d.items),
     verified     |-> d.verifiedBadge,
     recentVideos |-> LET first == Slice(d.items, SliceEnd)
                      IN  [i \in 1..Len(first) |-> VideoOf(first[i])],
     scrapedAt    |-> stamp]

\* the page script with scrapedAt taken from a time noted when the job
\* started instead of new Date() at the end of the script
ExtractStampedAtStart(platform, d, stamp) ==
    IF platform = "Instagram" THEN extractInstagram(d, 0)
    ELSE extractTikTok(d, 0)

\* the page script of the job's platform
Extract(platform, d, stamp) ==
    IF platform = "Instagram" THEN extractInstagram(d, stamp)
    ELSE extractTikTok(d, stamp)

(***************************************************************************)
(* Errors.  str(e) of the except clause is the message of the exception.   *)
(***************************************************************************)
LaunchError == [cls |-> "Error", base |-> "Exception", msg |-> "browser launch failed"]

ContextError == [cls |-> "Error", base |-> "Exception", msg |-> "new_context failed"]

PageError == [cls |-> "Error", base |-> "Exception", msg |-> "new_page failed"]

NavigationTimeout == [cls |-> "TimeoutError", base |-> "Exception", msg |-> "Timeout 30000ms exceeded."]

SelectorTimeout == [cls |-> "TimeoutError", base |-> "Exception", msg |-> "Timeout 15000ms exceeded."]

ExtractionError == [cls |-> "Error", base |-> "Exception", msg |-> "page crashed"]

WebhookError == [cls |-> "ConnectError", base |-> "Exception", msg |-> "webhook request failed"]

CloseError == [cls |-> "Error", base |-> "Exception", msg |-> "browser.close failed"]

\* what the hosting scheduler throws into the coroutine when timeout=300
\* expires; asyncio.CancelledError derives from BaseException
CancelledError == [cls |-> "CancelledError", base |-> "BaseException", msg |-> ""]

Str(exc) == exc.msg

(***************************************************************************)
(* State                                                                   *)
(***************************************************************************)
VARIABLES
    job,        \* job[j]: the arguments username, job_id, webhook_url and the function invoked
    dom,        \* dom[j]: the page the site serves for job[j].username
    pc,         \* pc[j]: the statement job j executes next
    browser,    \* browser[j]: "None", or the state of the launched browser
    closes,     \* closes[j]: the number of browser.close() calls
    data,       \* data[j]: the result of page.evaluate, once assigned
    e,          \* e[j]: the exception bound by the except clause
    error_msg,  \* error_msg[j]
    posts,      \* posts[j]: the POST requests issued to webhook_url, in order
    outcome,    \* outcome[j]: what the invoker gets once pc[j] = "done"
    trace,      \* trace[j]: the calls made so far, in order
    cancelled,  \* cancelled[j]: the 300 s ceiling fired
    text,       \* the argument of parseCount
    igCount,    \* parseCount(text) of the Instagram script, once computed
    ttCount     \* parseCount(text) of the TikTok script, once computed

jobVars == <<job, dom, pc, browser, closes, data, e, error_msg, posts, outcome, trace, cancelled>>

parseVars == <<text, igCount, ttCount>>

vars == <<job, dom, pc, browser, closes, data, e, error_msg, posts, outcome, trace, cancelled,
          text, igCount, ttCount>>

NoOutcome == [kind |-> "none", value |-> <<>>]

Returned(v) == [kind |-> "return", value |-> v]

Raised(exc) == [kind |-> "raise", value |-> exc]

Killed == [kind |-> "killed", value |-> <<>>]

\* the json= argument of the success POST
CompletedPayload(j) ==
    [jobId    |-> job[j].job_id,
     status   |-> "completed",
     platform |-> job[j].platform,
     data     |-> data[j][1]]

\* the json= argument of the error POST
FailedPayload(j) ==
    [jobId    |-> job[j].job_id,
     status   |-> "failed",
     platform |-> job[j].platform,
     error    |-> error_msg[j]]

(***************************************************************************)
(* Control flow of one job                                                 *)
(***************************************************************************)
Called(j, call) == trace' = [trace EXCEPT ![j] = Append(@, call)]

Goto_(j, label) == pc' = [pc EXCEPT ![j] = label]

\* an exception leaves the try body: `except Exception as e` binds it
Throw(j, exc) ==
    /\ e' = [e EXCEPT ![j] = <<exc>>]
    /\ Goto_(j, "except")

\* browser = await p.chromium.launch(...)
Launch(j) ==
    /\ pc[j] = "launch"
    /\ Called(j, "launch")
    /\ \E ok \in BOOLEAN :
          IF ok THEN /\ browser' = [browser EXCEPT ![j] = "open"]
                     /\ Goto_(j, "new_context")
                     /\ UNCHANGED e
                ELSE /\ Throw(j, LaunchError)
                     /\ UNCHANGED browser
    /\ UNCHANGED <<job, dom, closes, data, error_msg, posts, outcome, cancelled>>
    /\ UNCHANGED parseVars

\* context = await browser.new_context(...)
NewContext(j) ==
    /\ pc[j] = "new_context"
    /\ Called(j, "new_context")
    /\ \E ok \in BOOLEAN :
          IF ok THEN Goto_(j, "new_page") /\ UNCHANGED e
                ELSE Throw(j, ContextError)
    /\ UNCHANGED <<job, dom, browser, closes, data, error_msg, posts, outcome, cancelled>>
    /\ UNCHANGED parseVars

\* page = await context.new_page()
NewPage(j) ==
    /\ pc[j] = "new_page"
    /\ Called(j, "new_page")
    /\ \E ok \in BOOLEAN :
          IF ok THEN Goto_(j, "goto") /\ UNCHANGED e
                ELSE Throw(j, PageError)
    /\ UNCHANGED <<job, dom, browser, closes, data, error_msg, posts, outcome, cancelled>>
    /\ UNCHANGED parseVars

\* the number of times a call occurs in a history
Count(t, call) == Cardinality({i \in 1..Len(t) : t[i] = call})

\* page.goto tried a second time after a first timeout
NavigateRetryOnce(j) ==
    /\ pc[j] = "goto"
    /\ Called(j, "goto")
    /\ \E ok \in BOOLEAN :
          IF ok THEN Goto_(j, "wait_for_selector") /\ UNCHANGED e
          ELSE IF Count(trace[j], "goto") = 0 THEN UNCHANGED <<pc, e>>
          ELSE Throw(j, NavigationTimeout)
    /\ UNCHANGED <<job, dom, browser, closes, data, error_msg, posts, outcome, cancelled>>
    /\ UNCHANGED parseVars

\* page.goto without its timeout: a navigation that never completes leaves
\* the job suspended for good
NavigateUnbounded(j) ==
    /\ pc[j] = "goto"
    /\ Called(j, "goto")
    /\ \E ok \in BOOLEAN : Goto_(j, IF ok THEN "wait_for_selector" ELSE "suspended")
    /\ UNCHANGED <<job, dom, browser, closes, data, e, error_msg, posts, outcome, cancelled>>
    /\ UNCHANGED parseVars

\* await page.goto(url, wait_until='networkidle', timeout=30000)
Navigate(j) ==
    /\ pc[j] = "goto"
    /\ Called(j, "goto")
    /\ \E ok \in BOOLEAN :
          IF ok THEN Goto_(j, "wait_for_selector") /\ UNCHANGED e
                ELSE Throw(j, NavigationTimeout)
    /\ UNCHANGED <<job, dom, browser, closes, data, error_msg, posts, outcome, cancelled>>
    /\ UNCHANGED parseVars

\* the readiness wait in a try of its own whose handler logs the error and
\* lets the job go on to the extraction
WaitForSelectorSwallowed(j) ==
    /\ pc[j] = "wait_for_selector"
    /\ Called(j, "wait_for_selector")
    /\ \E ok \in BOOLEAN :
          /\ e' = [e EXCEPT ![j] = IF ok THEN @ ELSE <<SelectorTimeout>>]
          /\ Goto_(j, "evaluate")
    /\ UNCHANGED <<job, dom, browser, closes, data, error_msg, posts, outcome, cancelled>>
    /\ UNCHANGED parseVars

\* await page.wait_for_selector(..., timeout=15000)
WaitForSelector(j) ==
    /\ pc[j] = "wait_for_selector"
    /\ Called(j, "wait_for_selector")
    /\ \E ok \in BOOLEAN :
          IF ok THEN Goto_(j, "evaluate") /\ UNCHANGED e
                ELSE Throw(j, SelectorTimeout)
    /\ UNCHANGED <<job, dom, browser, closes, data, error_msg, posts, outcome, cancelled>>
    /\ UNCHANGED parseVars

\* the browser closed in the try body right after the extraction, before
\* the webhook is sent
EvaluateThenClose(j) ==
    /\ pc[j] = "evaluate"
    /\ \E ok \in BOOLEAN :
          IF ok THEN /\ data' = [data EXCEPT ![j] =
                                    <<Extract(job[j].platform, dom[j], Len(trace[j]) + 1)>>]
                     /\ trace' = [trace EXCEPT ![j] = @ \o <<"evaluate", "close">>]
                     /\ browser' = [browser EXCEPT ![j] = "closed"]
                     /\ closes' = [closes EXCEPT ![j] = @ + 1]
                     /\ Goto_(j, "post_completed")
                     /\ UNCHANGED e
                ELSE /\ Throw(j, ExtractionError)
                     /\ Called(j, "evaluate")
                     /\ UNCHANGED <<data, browser, closes>>
    /\ UNCHANGED <<job, dom, error_msg, posts, outcome, cancelled>>
    /\ UNCHANGED parseVars

\* data = await page.evaluate(...): the script runs on the loaded page, or
\* the page is lost while it runs
Evaluate(j) ==
    /\ pc[j] = "evaluate"
    /\ Called(j, "evaluate")
    /\ \E ok \in BOOLEAN :
          IF ok THEN /\ data' = [data EXCEPT ![j] =
                                    <<Extract(job[j].platform, dom[j], Len(trace[j]) + 1)>>]
                     /\ Goto_(j, "post_completed")
                     /\ UNCHANGED e
                ELSE /\ Throw(j, ExtractionError)
                     /\ UNCHANGED data
    /\ UNCHANGED <<job, dom, browser, closes, error_msg, posts, outcome, cancelled>>
    /\ UNCHANGED parseVars

\* await client.post(webhook_url, json={... "status": "completed" ...}, timeout=30.0):
\* the request is issued; it is answered (any status code), or it raises
\* before or after the endpoint has received the payload
PostCompleted(j) ==
    /\ pc[j] = "post_completed"
    /\ Called(j, "post_completed")
    /\ \E ok \in BOOLEAN, received \in BOOLEAN :
          /\ ok => received
          /\ posts' = [posts EXCEPT ![j] =
                          Append(@, [payload |-> CompletedPayload(j), received |-> received])]
          /\ IF ok THEN Goto_(j, "return") /\ UNCHANGED e
                   ELSE Throw(j, WebhookError)
    /\ UNCHANGED <<job, dom, browser, closes, data, error_msg, outcome, cancelled>>
    /\ UNCHANGED parseVars

\* return data
Return(j) ==
    /\ pc[j] = "return"
    /\ outcome' = [outcome EXCEPT ![j] = Returned(data[j][1])]
    /\ Goto_(j, "finally")
    /\ UNCHANGED <<job, dom, browser, closes, data, e, error_msg, posts, trace, cancelled>>
    /\ UNCHANGED parseVars

\* except Exception as e: error_msg = str(e)
ExceptHandler(j) ==
    /\ pc[j] = "except"
    /\ error_msg' = [error_msg EXCEPT ![j] = Str(e[j][1])]
    /\ Goto_(j, "post_failed")
    /\ UNCHANGED <<job, dom, browser, closes, data, e, posts, outcome, trace, cancelled>>
    /\ UNCHANGED parseVars

\* try: await client.post(... "status": "failed" ...) except Exception: print
PostFailed(j) ==
    /\ pc[j] = "post_failed"
    /\ Called(j, "post_failed")
    /\ \E ok \in BOOLEAN, received \in BOOLEAN :
          /\ ok => received
          /\ posts' = [posts EXCEPT ![j] =
                          Append(@, [payload |-> FailedPayload(j), received |-> received])]
    /\ Goto_(j, "raise")
    /\ UNCHANGED <<job, dom, browser, closes, data, e, error_msg, outcome, cancelled>>
    /\ UNCHANGED parseVars

\* raise e
Reraise(j) ==
    /\ pc[j] = "raise"
    /\ outcome' = [outcome EXCEPT ![j] = Raised(e[j][1])]
    /\ Goto_(j, "finally")
    /\ UNCHANGED <<job, dom, browser, closes, data, e, error_msg, posts, trace, cancelled>>
    /\ UNCHANGED parseVars

\* the finally block closing whatever browser a module-level variable
\* shared by the invocations holds, possibly the one of another job
FinallyShared(j) ==
    /\ pc[j] = "finally"
    /\ \E k \in Jobs :
          /\ browser[k] # "None"
          /\ closes' = [closes EXCEPT ![k] = @ + 1]
          /\ browser' = [browser EXCEPT ![k] = "closed"]
    /\ Called(j, "close")
    /\ Goto_(j, "aexit")
    /\ UNCHANGED <<job, dom, data, e, error_msg, posts, outcome, cancelled>>
    /\ UNCHANGED parseVars

\* the finally block without its `if browser` guard: close is called also
\* when nothing was launched, and fails on None
FinallyUnguarded(j) ==
    /\ pc[j] = "finally"
    /\ closes' = [closes EXCEPT ![j] = @ + 1]
    /\ Called(j, "close")
    /\ IF browser[j] # "None"
       THEN /\ browser' = [browser EXCEPT ![j] = "closed"]
            /\ UNCHANGED outcome
       ELSE /\ outcome' = [outcome EXCEPT ![j] = Raised(CloseError)]
            /\ UNCHANGED browser
    /\ Goto_(j, "aexit")
    /\ UNCHANGED <<job, dom, data, e, error_msg, posts, cancelled>>
    /\ UNCHANGED parseVars

\* the browser is closed at the end of the try body only: a job that failed
\* leaves the finally block without closing it
FinallyOnSuccessOnly(j) ==
    /\ pc[j] = "finally"
    /\ IF browser[j] # "None" /\ outcome[j].kind = "return"
       THEN /\ closes' = [closes EXCEPT ![j] = @ + 1]
            /\ Called(j, "close")
            /\ browser' = [browser EXCEPT ![j] = "closed"]
            /\ UNCHANGED outcome
       ELSE UNCHANGED <<closes, trace, browser, outcome>>
    /\ Goto_(j, "aexit")
    /\ UNCHANGED <<job, dom, data, e, error_msg, posts, cancelled>>
    /\ UNCHANGED parseVars

\* finally: if browser: await browser.close()
\* an exception raised by close() replaces the pending return value or error
Finally(j) ==
    /\ pc[j] = "finally"
    /\ IF browser[j] # "None"
       THEN /\ closes' = [closes EXCEPT ![j] = @ + 1]
            /\ Called(j, "close")
            /\ \E ok \in BOOLEAN :
                  IF ok THEN /\ browser' = [browser EXCEPT ![j] = "closed"]
                             /\ UNCHANGED outcome
                        ELSE /\ \E left \in {"open", "closed"} :
                                   browser' = [browser EXCEPT ![j] = left]
                             /\ outcome' = [outcome EXCEPT ![j] = Raised(CloseError)]
       ELSE UNCHANGED <<closes, trace, browser, outcome>>
    /\ Goto_(j, "aexit")
    /\ UNCHANGED <<job, dom, data, e, error_msg, posts, cancelled>>
    /\ UNCHANGED parseVars

\* leaving `async with async_playwright() as p`: the driver is stopped and
\* takes every browser it launched with it; the invoker gets the outcome
PlaywrightExit(j) ==
    /\ pc[j] = "aexit"
    /\ browser' = [browser EXCEPT ![j] = IF @ = "open" THEN "closed" ELSE @]
    /\ Goto_(j, "done")
    /\ UNCHANGED <<job, dom, closes, data, e, error_msg, posts, outcome, trace, cancelled>>
    /\ UNCHANGED parseVars

\* the statements at which the coroutine is suspended in an await
AwaitLabels ==
    {"launch", "new_context", "new_page", "goto", "wait_for_selector", "evaluate",
     "post_completed", "post_failed", "finally"}

\* the payload of the POST the job is suspended in
PendingPayload(j) ==
    IF pc[j] = "post_completed" THEN CompletedPayload(j) ELSE FailedPayload(j)

\* the call the coroutine is suspended in at a label
CallAt(label) == IF label = "finally" THEN "close" ELSE label

\* @stub.function(timeout=300): the hosting scheduler ends the job while it
\* is suspended in a call.  Either CancelledError is thrown into the await
\* (it is not an Exception, so only the finally block runs), or the
\* container is stopped and nothing of the function runs any more.  A POST
\* that is interrupted may already have reached the endpoint.
Timeout(j) ==
    /\ pc[j] \in AwaitLabels
    /\ pc[j] = "finally" => browser[j] # "None"
    /\ cancelled' = [cancelled EXCEPT ![j] = TRUE]
    /\ closes' = [closes EXCEPT ![j] = IF pc[j] = "finally" THEN @ + 1 ELSE @]
    /\ \E sent \in BOOLEAN :
          /\ sent => pc[j] \in {"post_completed", "post_failed"}
          /\ posts' = [posts EXCEPT ![j] =
                          IF sent THEN Append(@, [payload |-> PendingPayload(j), received |-> TRUE])
                          ELSE @]
    /\ \E kill \in BOOLEAN :
          IF kill
          THEN /\ outcome' = [outcome EXCEPT ![j] = Killed]
               /\ browser' = [browser EXCEPT ![j] = IF @ = "open" THEN "closed" ELSE @]
               /\ Goto_(j, "done")
               /\ trace' = [trace EXCEPT ![j] = @ \o <<CallAt(pc[j]), "killed">>]
          ELSE /\ outcome' = [outcome EXCEPT ![j] = Raised(CancelledError)]
               /\ Goto_(j, IF pc[j] = "finally" THEN "aexit" ELSE "finally")
               /\ trace' = [trace EXCEPT ![j] = @ \o <<CallAt(pc[j]), "cancelled">>]
               /\ UNCHANGED browser
    /\ UNCHANGED <<job, dom, data, e, error_msg>>
    /\ UNCHANGED parseVars

\* one statement of job j
Step(j) ==
    \/ Launch(j)
    \/ NewContext(j)
    \/ NewPage(j)
    \/ Navigate(j)
    \/ WaitForSelector(j)
    \/ Evaluate(j)
    \/ PostCompleted(j)
    \/ Return(j)
    \/ ExceptHandler(j)
    \/ PostFailed(j)
    \/ Reraise(j)
    \/ Finally(j)
    \/ PlaywrightExit(j)

(***************************************************************************)
(* parseCount as a function of its argument                                *)
(***************************************************************************)
ParseInstagram ==
    /\ igCount = <<>>
    /\ igCount' = parseCountInstagram(text)
    /\ UNCHANGED <<text, ttCount>>
    /\ UNCHANGED jobVars

ParseTikTok ==
    /\ ttCount = <<>>
    /\ ttCount' = parseCountTikTok(text)
    /\ UNCHANGED <<text, igCount>>
    /\ UNCHANGED jobVars

(***************************************************************************)
(* Pages                                                                   *)
(***************************************************************************)
\* an optional node: absent, or present with the given content
Opt(x) == {<<>>, <<x>>}

Prefixes(s) == {SubSeq(s, 1, n) : n \in 0..Len(s)}

NikeStats == <<<<"1", "0", "0", " ", "p", "o", "s", "t", "s">>, <<"1", "0", "M", " ", "f", "o", "l", "l", "o", "w", "e", "r", "s">>, <<"5", "0", " ", "f", "o", "l", "l", "o", "w", "i", "n", "g">>>>

\* Instagram profile pages that passed wait_for_selector('header'), with
\* every subset of the nodes the script reads absent
InstagramPages ==
    [stats        : Prefixes(NikeStats),
     headerH2     : Opt(<<"n", "i", "k", "e">>),
     fullNameSpan : Opt(<<" ", "N", "i", "k", "e", " ">>),
     bioSpan      : Opt(<<"J", "u", "s", "t", " ", "d", "o", " ", "i", "t">>),
     verifiedSvg  : BOOLEAN,
     h2           : Opt(<<"n", "i", "k", "e">>),
     headerImg    : Opt(<<"p", "i", "c">>)]

DigitChar(n) == <<"0", "1", "2", "3", "4", "5", "6", "7", "8", "9">>[n + 1]

\* the decimal numeral of a natural number
RECURSIVE Numeral(_)
Numeral(n) == IF n < 10 THEN <<DigitChar(n)>> ELSE Append(Numeral(n \div 10), DigitChar(n % 10))

\* the i-th content item of a TikTok page: the link and the view count are
\* each missing on some items
ItemAt(i) ==
    [a     |-> IF i % 4 = 2 \/ i % 4 = 0 THEN <<>> ELSE <<<<"v">> \o Numeral(i)>>,
     views |-> IF i % 4 = 3 \/ i % 4 = 0 THEN <<>> ELSE <<Numeral(i) \o <<".", "5", "K">>>>]

ItemsOf(n) == [i \in 1..n |-> ItemAt(i)]

\* a stats element of a TikTok page: with or without a title attribute
CountEl(t) == {<<>>, <<[title |-> <<>>, textContent |-> t]>>, <<[title |-> <<t>>, textContent |-> <<>>]>>}

\* TikTok profile pages that passed wait_for_selector('[data-e2e="user-page"]'),
\* with every subset of the nodes the script reads absent
TikTokPages(ItemCounts) ==
    [userTitle     : Opt(<<"c", "h", "a", "r", "l", "i">>),
     userBio       : Opt(<<" ", "h", "i", " ">>),
     avatarImg     : Opt(<<"p", "i", "c">>),
     followersEl   : CountEl(<<"1", ".", "5", "M">>),
     followingEl   : Opt([title |-> <<>>, textContent |-> <<"1", ",", "5", "1", "5">>]),
     likesEl       : Opt([title |-> <<>>, textContent |-> <<"1", "B">>]),
     verifiedBadge : BOOLEAN,
     items         : {ItemsOf(n) : n \in ItemCounts}]

\* the stored pages of the end-to-end examples: a complete profile, one
\* without the bio and avatar nodes, and one with none of the nodes
NikePage ==
    [stats |-> NikeStats, headerH2 |-> <<<<"n", "i", "k", "e">>>>, fullNameSpan |-> <<<<" ", "N", "i", "k", "e", " ">>>>,
     bioSpan |-> <<<<"J", "u", "s", "t", " ", "d", "o", " ", "i", "t">>>>, verifiedSvg |-> TRUE, h2 |-> <<<<"n", "i", "k", "e">>>>,
     headerImg |-> <<<<"p", "i", "c">>>>]

BlankPage ==
    [stats |-> <<>>, headerH2 |-> <<>>, fullNameSpan |-> <<>>, bioSpan |-> <<>>,
     verifiedSvg |-> FALSE, h2 |-> <<>>, headerImg |-> <<>>]

InstagramFixtures ==
    {NikePage, [NikePage EXCEPT !.bioSpan = <<>>, !.headerImg = <<>>], BlankPage}

CharliPage ==
    [userTitle |-> <<<<"c", "h", "a", "r", "l", "i">>>>, userBio |-> <<<<" ", "h", "i", " ">>>>, avatarImg |-> <<<<"p", "i", "c">>>>,
     followersEl |-> <<[title |-> <<<<"1", ".", "5", "M">>>>, textContent |-> <<>>]>>,
     followingEl |-> <<[title |-> <<>>, textContent |-> <<"1", ",", "5", "1", "5">>]>>,
     likesEl |-> <<[title |-> <<>>, textContent |-> <<"1", "B">>]>>,
     verifiedBadge |-> TRUE, items |-> ItemsOf(2)]

BlankTikTokPage ==
    [userTitle |-> <<>>, userBio |-> <<>>, avatarImg |-> <<>>, followersEl |-> <<>>,
     followingEl |-> <<>>, likesEl |-> <<>>, verifiedBadge |-> FALSE, items |-> <<>>]

TikTokFixtures ==
    {CharliPage, [CharliPage EXCEPT !.userBio = <<>>, !.avatarImg = <<>>], BlankTikTokPage}

\* the arguments of invocation j
Args(j, platform) ==
    [username    |-> IF platform = "Instagram" THEN "nike" ELSE "charli",
     job_id      |-> j,
     webhook_url |-> <<"hook", j>>,
     platform    |-> platform]

(***************************************************************************)
(* Specifications                                                          *)
(***************************************************************************)
\* the jobs in Active have been invoked and are about to launch a browser;
\* the others are never invoked.  IG and TT are the pages the two sites serve.
InitJobs(Active, IG, TT) ==
    /\ \E f \in [Active -> Platforms] :
          job = [j \in Jobs |-> Args(j, IF j \in Active THEN f[j] ELSE "Instagram")]
    /\ \E d \in [Active -> IG \cup TT] :
          /\ \A j \in Active : d[j] \in (IF job[j].platform = "Instagram" THEN IG ELSE TT)
          /\ dom = [j \in Jobs |-> IF j \in Active THEN d[j] ELSE BlankPage]
    /\ pc = [j \in Jobs |-> IF j \in Active THEN "launch" ELSE "idle"]
    /\ browser = [j \in Jobs |-> "None"]
    /\ closes = [j \in Jobs |-> 0]
    /\ data = [j \in Jobs |-> <<>>]
    /\ e = [j \in Jobs |-> <<>>]
    /\ error_msg = [j \in Jobs |-> ""]
    /\ posts = [j \in Jobs |-> <<>>]
    /\ outcome = [j \in Jobs |-> NoOutcome]
    /\ trace = [j \in Jobs |-> <<>>]
    /\ cancelled = [j \in Jobs |-> FALSE]

NoParse ==
    /\ text = <<>>
    /\ igCount = <<>>
    /\ ttCount = <<>>

\* one invocation of one of the two functions
Init == InitJobs({1}, InstagramFixtures, TikTokFixtures) /\ NoParse

Next == \E j \in Jobs : Step(j) \/ Timeout(j)

Spec == Init /\ [][Next]_vars

\* one invocation on a page with any subset of the nodes absent, when the
\* 300 s ceiling does not fire
InitGaps == InitJobs({1}, InstagramPages, TikTokPages(0..MaxGapItems)) /\ NoParse

NextRun == \E j \in Jobs : Step(j)

SpecGaps == InitGaps /\ [][NextRun]_vars

\* the steps of a job that is not cut short by the ceiling all complete:
\* each await returns or raises within its own bound
SpecLive == Init /\ [][NextRun]_vars /\ \A j \in Jobs : WF_vars(Step(j))

\* one invocation of scrape_tiktok_profile on a complete profile page with
\* 0 to MaxItems content items, when the 300 s ceiling does not fire
InitItems ==
    /\ InitJobs({1}, {}, {[CharliPage EXCEPT !.items = ItemsOf(n)] : n \in 0..MaxItems})
    /\ NoParse

SpecItems == InitItems /\ [][NextRun]_vars

\* two invocations running concurrently on independent workers, each of
\* either function, when the 300 s ceiling does not fire
InitConcurrent ==
    /\ InitJobs(Jobs, {NikePage, BlankPage}, {CharliPage, BlankTikTokPage})
    /\ NoParse

SpecConcurrent == InitConcurrent /\ [][NextRun]_vars

\* parseCount applied to every text of at most MaxLen characters and to the
\* sample texts
SampleTexts ==
    {<<"1", "2", ".", "3", "K">>, <<"1", ",", "2", "3", "4">>, <<"2", "M">>, <<"1", "B">>, <<"g", "a", "r", "b", "a", "g", "e">>, <<"1", "0", " ", "K">>, <<"1", ",", "2", "3", "4", " ", "M", "e", "m", "b", "e", "r", "s">>,
     <<"1", "0", "0", " ", "p", "o", "s", "t", "s">>, <<"1", "0", "M", " ", "f", "o", "l", "l", "o", "w", "e", "r", "s">>, <<"5", "0", " ", "f", "o", "l", "l", "o", "w", "i", "n", "g">>}

InitParse ==
    /\ text \in StringsUpTo(MaxLen) \cup SampleTexts
    /\ igCount = <<>>
    /\ ttCount = <<>>
    /\ InitJobs({}, InstagramFixtures, TikTokFixtures)

NextParse == ParseInstagram \/ ParseTikTok

SpecParse == InitParse /\ [][NextParse]_vars

(***************************************************************************)
(* Properties                                                              *)
(***************************************************************************)
\* job j has returned or raised to its invoker and the ceiling did not fire
Ended(j) == pc[j] = "done" /\ ~cancelled[j]

Statuses(j) == {posts[j][i].payload.status : i \in 1..Len(posts[j])}

\* C1: whatever the outcome of each step, a job that has ended has issued
\* exactly one webhook POST.
C1_ExactlyOnePost ==
    \A j \in Jobs : Ended(j) => Len(posts[j]) = 1

\* C2: once the browser has been launched, browser.close is invoked exactly
\* once on every path, and when the job returns or raises to its invoker the
\* browser it launched is no longer open.
C2_ReleasedOnce ==
    \A j \in Jobs : Ended(j) /\ browser[j] # "None" => closes[j] = 1 /\ browser[j] = "closed"

\* a job that timed out in navigation has ended with its browser closed once
C2_Witness ==
    \E j \in Jobs : /\ Ended(j)
                    /\ e[j] = <<NavigationTimeout>>
                    /\ closes[j] = 1
                    /\ browser[j] = "closed"

\* C3: when a job fails with error E at a step, the failure webhook carries
\* str(E) and the invoker receives exactly E, also when the failure POST
\* itself raises.
C3_OriginalErrorSurfaced ==
    \A j \in Jobs :
        Ended(j) /\ e[j] # <<>> /\ e[j] # <<WebhookError>> =>
            /\ \E i \in 1..Len(posts[j]) :
                  /\ posts[j][i].payload.status = "failed"
                  /\ posts[j][i].payload.error = e[j][1].msg
            /\ outcome[j] = Raised(e[j][1])

\* C4: when every step succeeds and the POST of the completed payload
\* raises, the job still returns the extracted record to its invoker.
C4_ReturnsDespiteWebhookFailure ==
    \A j \in Jobs :
        Ended(j) /\ e[j] = <<WebhookError>> => outcome[j] = Returned(data[j][1])

\* C5: exactly one payload is sent; it is the completed one if and only if
\* the invoker receives the record, the failed one if and only if the
\* invoker receives an error; never both, and never a completed payload
\* followed by a raise.
C5_ChannelsAgree ==
    \A j \in Jobs :
        Ended(j) =>
            /\ Len(posts[j]) = 1
            /\ "completed" \in Statuses(j) <=> outcome[j].kind = "return"
            /\ "failed" \in Statuses(j) <=> outcome[j].kind = "raise"

\* The count normalizer as the specification defines it (steps 1-5): strip
\* everything but digits, '.', ',' and K/M/B; take the numeric token at the
\* start of the stripped text (digits with optional thousands separators
\* and at most one decimal point) and the one suffix letter after it; 0
\* when there is no such token; otherwise remove the separators, multiply
\* by the suffix multiplier and floor.
normalizeCount(t) ==
    LET stripped == Keep(t, Digit \cup {".", ","} \cup SuffixLetter)
        whole    == Run(stripped, Digit \cup {","})
        afterInt == Drop(stripped, Len(whole))
        frac     == IF afterInt # <<>> /\ Head(afterInt) = "."
                    THEN <<".">> \o Run(Tail(afterInt), Digit) ELSE <<>>
        token    == whole \o frac
        rest     == Drop(stripped, Len(token))
        suffix   == IF rest # <<>> /\ Head(rest) \in SuffixLetter THEN Head(rest) ELSE ""
    IN  IF Keep(token, Digit) = <<>> THEN Zero
        ELSE FloorTimes(parseFloat(RemoveCommas(token)), Exponent(suffix))

\* C6: for every input text, parseCount of either platform script returns
\* what the specification's normalizer returns; in particular it returns 0
\* when the stripped text does not start with a numeric token.
C6_ComputesNormalizer ==
    /\ igCount # <<>> => igCount = normalizeCount(text)
    /\ ttCount # <<>> => ttCount = normalizeCount(text)

\* the record extracted from an Instagram page has the default of every
\* field whose node is absent
InstagramDefaults(d, r) ==
    /\ d.headerH2 = <<>> => r.username = <<>>
    /\ d.fullNameSpan = <<>> => r.fullName = <<>>
    /\ d.bioSpan = <<>> => r.bio = <<>>
    /\ d.headerImg = <<>> => r.profilePicUrl = <<>>
    /\ ~d.verifiedSvg => r.isVerified = FALSE
    /\ d.h2 = <<>> => r.isPrivate = FALSE
    /\ Len(d.stats) < 1 => r.posts = Zero
    /\ Len(d.stats) < 2 => r.followers = Zero
    /\ Len(d.stats) < 3 => r.following = Zero

\* the same for a TikTok page and the items of its list
TikTokDefaults(d, r) ==
    /\ d.userTitle = <<>> => r.username = <<>>
    /\ d.userBio = <<>> => r.bio = <<>>
    /\ d.avatarImg = <<>> => r.avatar = <<>>
    /\ d.followersEl = <<>> => r.followers = Zero
    /\ d.followingEl = <<>> => r.following = Zero
    /\ d.likesEl = <<>> => r.likes = Zero
    /\ ~d.verifiedBadge => r.verified = FALSE
    /\ \A i \in 1..Len(r.recentVideos) :
          /\ d.items[i].a = <<>> => r.recentVideos[i].link = <<>>
          /\ d.items[i].views = <<>> => r.recentVideos[i].views = Zero

\* C7: on a page that passed the readiness wait, whatever subset of the
\* nodes is absent, the extracted record holds the default of each absent
\* field, no error of the extraction is caught, and the payload the job
\* then sends is the completed one carrying that record.
C7_GapsTakeDefaults ==
    \A j \in Jobs :
        data[j] # <<>> =>
            /\ IF job[j].platform = "Instagram"
               THEN InstagramDefaults(dom[j], data[j][1])
               ELSE TikTokDefaults(dom[j], data[j][1])
            /\ e[j] \in {<<>>, <<WebhookError>>}
            /\ posts[j] # <<>> =>
                  /\ posts[j][1].payload.status = "completed"
                  /\ posts[j][1].payload.data = data[j][1]

\* a page without the bio and avatar nodes gave bio = "" and an empty avatar
\* URL, the completed payload was sent and the record returned
C7_Witness ==
    \E j \in Jobs :
        /\ Ended(j)
        /\ job[j].platform = "Instagram"
        /\ dom[j].bioSpan = <<>> /\ dom[j].headerImg = <<>> /\ dom[j].headerH2 # <<>>
        /\ outcome[j].kind = "return"
        /\ outcome[j].value.bio = <<>> /\ outcome[j].value.profilePicUrl = <<>>
        /\ Len(posts[j]) = 1
        /\ posts[j][1].payload.status = "completed"
        /\ posts[j][1].payload.data.bio = <<>>

\* the only payload job j has sent is the failed one carrying str(exc)
FailureReported(j, exc) ==
    /\ Len(posts[j]) = 1
    /\ posts[j][1].payload.status = "failed"
    /\ posts[j][1].payload.error = exc.msg

\* C8: when no await outlasts its bound, every invoked job ends, and a job
\* whose navigation timed out ends having sent the failed payload with the
\* navigation timeout error, closed its browser and raised to the invoker.
C8_NavigationTimeoutEnds ==
    \A j \in Jobs :
        /\ (pc[j] # "idle") ~> (pc[j] = "done")
        /\ (pc[j] = "except" /\ e[j] = <<NavigationTimeout>>) ~>
              (/\ pc[j] = "done"
               /\ FailureReported(j, NavigationTimeout)
               /\ closes[j] = 1 /\ browser[j] = "closed"
               /\ outcome[j].kind = "raise")

\* a job has ended that way
C8_Witness ==
    \E j \in Jobs :
        /\ pc[j] = "done"
        /\ e[j] = <<NavigationTimeout>>
        /\ FailureReported(j, NavigationTimeout)
        /\ closes[j] = 1 /\ browser[j] = "closed"
        /\ outcome[j] = Raised(NavigationTimeout)

\* C9: a job ended by the 300 s ceiling has sent a failed payload.
C9_CeilingReportsFailure ==
    \A j \in Jobs : pc[j] = "done" /\ cancelled[j] => "failed" \in Statuses(j)

\* the steps of a job in their order in the try body
StepOrder ==
    <<"launch", "new_context", "new_page", "goto", "wait_for_selector", "evaluate",
      "post_completed">>

\* the step an error comes from
FaultStep(exc) ==
    CASE exc = LaunchError       -> "launch"
      [] exc = ContextError      -> "new_context"
      [] exc = PageError         -> "new_page"
      [] exc = NavigationTimeout -> "goto"
      [] exc = SelectorTimeout   -> "wait_for_selector"
      [] exc = ExtractionError   -> "evaluate"
      [] exc = WebhookError      -> "post_completed"

\* the steps job j has executed, in order
StepsDone(j) == SelectSeq(trace[j], LAMBDA c : \E i \in 1..Len(StepOrder) : StepOrder[i] = c)

\* C10: the steps run in the order launch, new context, new page, navigate,
\* readiness wait, extract, success webhook, each at most once and before
\* any call of the handler; after a fault at a step no later step is
\* executed; a completed payload is sent only when every step up to the
\* extraction succeeded.
C10_OrderAndShortCircuit ==
    \A j \in Jobs :
        /\ StepsDone(j) \in Prefixes(StepOrder)
        /\ SubSeq(trace[j], 1, Len(StepsDone(j))) = StepsDone(j)
        /\ e[j] # <<>> => /\ StepsDone(j) # <<>>
                          /\ StepsDone(j)[Len(StepsDone(j))] = FaultStep(e[j][1])
        /\ "completed" \in Statuses(j) =>
              /\ StepsDone(j) = StepOrder
              /\ data[j] # <<>>
              /\ e[j] \in {<<>>, <<WebhookError>>}

\* a job whose readiness wait timed out has ended: it executed the steps up
\* to the wait, then only the handler's POST and the close
C10_Witness ==
    \E j \in Jobs :
        /\ Ended(j)
        /\ e[j] = <<SelectorTimeout>>
        /\ trace[j] = <<"launch", "new_context", "new_page", "goto", "wait_for_selector",
                        "post_failed", "close">>

\* a numeral of a non-negative integer
IsCount(n) == n # <<>> /\ \A i \in 1..Len(n) : n[i] \in Digit

\* C11: for every input text, also one whose only matching characters are
\* separators or that has several decimal points, parseCount of both
\* scripts returns a non-negative integer, never NaN.
C11_AlwaysCount ==
    /\ igCount # <<>> => IsCount(igCount)
    /\ ttCount # <<>> => IsCount(ttCount)

\* C12: for every input text the Instagram parseCount and the TikTok
\* parseCount return the same integer.
C12_SameFunction ==
    igCount # <<>> /\ ttCount # <<>> => igCount = ttCount

\* C13: for a TikTok page with n content items, recentVideos has exactly
\* min(12, n) entries, the i-th being the link and the parsed view count of
\* the i-th item of the page; the list is never longer than the reported
\* videos count, and a short or empty list does not fail the job.
C13_FirstTwelveItems ==
    \A j \in Jobs :
        data[j] # <<>> /\ job[j].platform = "TikTok" =>
            LET r == data[j][1]
                n == Len(dom[j].items)
            IN  /\ Len(r.recentVideos) = (IF n < 12 THEN n ELSE 12)
                /\ r.videos = n
                /\ Len(r.recentVideos) <= r.videos
                /\ \A i \in 1..Len(r.recentVideos) :
                      /\ DOMAIN r.recentVideos[i] = {"link", "views"}
                      /\ r.recentVideos[i].link =
                            (IF dom[j].items[i].a = <<>> THEN <<>> ELSE <<"v">> \o Numeral(i))
                      /\ r.recentVideos[i].views =
                            (IF dom[j].items[i].views = <<>> THEN Zero
                             ELSE Numeral(i) \o <<"5", "0", "0">>)
                /\ e[j] \in {<<>>, <<WebhookError>>}
                /\ posts[j] # <<>> => posts[j][1].payload.status = "completed"

\* a page with more than twelve items gave a list of twelve and the job
\* returned it
C13_Witness ==
    \E j \in Jobs :
        /\ Ended(j)
        /\ Len(dom[j].items) > 12
        /\ outcome[j].kind = "return"
        /\ Len(outcome[j].value.recentVideos) = 12
        /\ outcome[j].value.recentVideos[9] =
              [link |-> <<"v", "9">>, views |-> <<"9", "5", "0", "0">>]

AcquisitionErrors == {LaunchError, ContextError, PageError}

\* C14 as stated: when the launch fails, or the launch succeeds and the
\* context or page creation fails, the job sends the failed payload and the
\* release hook browser.close is invoked exactly once.
C14_ReleasedOnceOnAcquisitionFailure ==
    \A j \in Jobs :
        Ended(j) /\ e[j] # <<>> /\ e[j][1] \in AcquisitionErrors =>
            /\ FailureReported(j, e[j][1])
            /\ closes[j] = 1

\* C14 as amended: in those cases the job goes from the failed step directly
\* to the handler and sends the failed payload; browser.close is invoked
\* exactly once when the launch had succeeded, and not at all when the
\* launch itself failed (there is no browser), and no browser is left open.
C14_ReleasedIfLaunched ==
    \A j \in Jobs :
        Ended(j) /\ e[j] # <<>> /\ e[j][1] \in AcquisitionErrors =>
            /\ FailureReported(j, e[j][1])
            /\ StepsDone(j)[Len(StepsDone(j))] = FaultStep(e[j][1])
            /\ closes[j] = (IF e[j][1] = LaunchError THEN 0 ELSE 1)
            /\ Count(trace[j], "close") = closes[j]
            /\ browser[j] = (IF e[j][1] = LaunchError THEN "None" ELSE "closed")

\* a job whose launch failed has ended: failed payload sent, no close call
C14_Witness ==
    \E j \in Jobs :
        /\ Ended(j)
        /\ e[j] = <<LaunchError>>
        /\ FailureReported(j, LaunchError)
        /\ closes[j] = 0
        /\ trace[j] = <<"launch", "post_failed">>

\* C15: within one job the launch, the navigation, the readiness wait and
\* the extraction are each attempted at most once, whatever their outcome.
C15_NoRetry ==
    \A j \in Jobs :
        \A call \in {"launch", "goto", "wait_for_selector", "evaluate"} :
            Count(trace[j], call) <= 1

\* a job whose navigation failed has ended after a single navigation
C15_Witness ==
    \E j \in Jobs :
        /\ Ended(j)
        /\ e[j] = <<NavigationTimeout>>
        /\ Count(trace[j], "goto") = 1
        /\ Count(trace[j], "launch") = 1

\* the position of a call in a history that holds it
IndexOf(t, call) == CHOOSE i \in 1..Len(t) : t[i] = call

\* C16: the scrapedAt of the record is the time of the extraction: later
\* than the launch, the navigation and the return of the readiness wait,
\* and earlier than the success POST.
C16_StampedAtExtraction ==
    \A j \in Jobs :
        data[j] # <<>> =>
            LET at == data[j][1].scrapedAt
            IN  /\ at \in 1..Len(trace[j])
                /\ trace[j][at] = "evaluate"
                /\ \A call \in {"launch", "goto", "wait_for_selector"} :
                      IndexOf(trace[j], call) < at
                /\ \A i \in 1..Len(trace[j]) :
                      trace[j][i] \in {"post_completed", "post_failed"} => at < i
                /\ \A i \in 1..Len(posts[j]) :
                      posts[j][i].payload.status = "completed" =>
                          posts[j][i].payload.data.scrapedAt = at

\* a job has returned a record stamped at its sixth call, the extraction
C16_Witness ==
    \E j \in Jobs :
        /\ Ended(j)
        /\ outcome[j].kind = "return"
        /\ outcome[j].value.scrapedAt = 6
        /\ trace[j][6] = "evaluate"
        /\ posts[j][1].payload.data.scrapedAt = 6

\* everything job j owns
JobState(j) ==
    <<job[j], dom[j], pc[j], browser[j], closes[j], data[j], e[j], error_msg[j],
      posts[j], outcome[j], trace[j], cancelled[j]>>

\* every payload job j has sent carries its own job id and platform, and
\* its own record or its own error
OwnPayloads(j) ==
    \A i \in 1..Len(posts[j]) :
        LET body == posts[j][i].payload
        IN  /\ body.jobId = job[j].job_id
            /\ body.platform = job[j].platform
            /\ body.status = "completed" =>
                  /\ data[j] # <<>>
                  /\ body.data = data[j][1]
                  /\ body.data.username =
                        TextOrEmpty(IF job[j].platform = "Instagram"
                                    THEN dom[j].headerH2 ELSE dom[j].userTitle)
            /\ body.status = "failed" => e[j] # <<>> /\ body.error = e[j][1].msg

\* C17: in every interleaving of two jobs, each payload of a job carries
\* that job's own jobId, platform and record or error, each job closes at
\* most its own browser, and a step of one job, failing or not, leaves
\* everything of the other job unchanged.
C17_JobsIsolated ==
    /\ [](\A j \in Jobs : OwnPayloads(j) /\ closes[j] <= 1
                          /\ (closes[j] = 1 => Count(trace[j], "close") = 1))
    /\ [][\A j \in Jobs : \A k \in Jobs \ {j} :
              JobState(j)' # JobState(j) => JobState(k)' = JobState(k)]_vars

\* both jobs have ended, the first failed and the second succeeded, each
\* with one payload of its own and one close
C17_Witness ==
    /\ Ended(1) /\ Ended(2)
    /\ outcome[1] = Raised(SelectorTimeout)
    /\ outcome[2].kind = "return"
    /\ FailureReported(1, SelectorTimeout) /\ posts[1][1].payload.jobId = 1
    /\ Len(posts[2]) = 1 /\ posts[2][1].payload.jobId = 2
    /\ posts[2][1].payload.status = "completed"
    /\ closes[1] = 1 /\ closes[2] = 1

\* C18: the browser of a job is closed only after every webhook POST of the
\* job has finished, it is open during the success POST and not yet closed
\* during the failure POST, and a launched browser has been closed when
\* the invoker observes the return value or the error.
C18_CloseAfterDelivery ==
    \A j \in Jobs :
        /\ \A i \in 1..Len(trace[j]) : \A k \in 1..Len(trace[j]) :
              trace[j][i] = "close" /\ trace[j][k] \in {"post_completed", "post_failed"}
                  => k < i
        /\ pc[j] \in {"post_completed", "return"} => browser[j] = "open" /\ closes[j] = 0
        /\ pc[j] \in {"except", "post_failed", "raise"} =>
              browser[j] # "closed" /\ closes[j] = 0
        /\ Ended(j) /\ browser[j] # "None" =>
              /\ trace[j][Len(trace[j])] = "close"
              /\ browser[j] = "closed"

\* a job whose success POST raised has ended: both POSTs, then the close
C18_Witness ==
    \E j \in Jobs :
        /\ Ended(j)
        /\ e[j] = <<WebhookError>>
        /\ SubSeq(trace[j], 7, 9) = <<"post_completed", "post_failed", "close">>
        /\ Len(trace[j]) = 9

====
